---- MODULE Spec2Model ----
(***************************************************************************)
(* The GraphQL resolvers of the Hackernews clone (schema.ts with URL,      *)
(* pagination and comment validation) over the Prisma store declared in    *)
(* prisma/schema.prisma.                                                   *)
(*                                                                         *)
(* Text is a sequence of one-character strings, so that trimming, the      *)
(* regular expressions, parseInt and substring search are computed.       *)
(***************************************************************************)
EXTENDS Integers, Sequences, FiniteSets, TLC

(* ------------------------------ bounds -------------------------------- *)
\* Rows the Link table may hold.
MaxLinks == 2
\* Rows the Comment table may hold.
MaxComments == 2
\* Latest value of the store's clock (createdAt is drawn from 0..MaxTime).
MaxTime == 1

(* --------------------------- character classes ------------------------ *)
Digit == {"0", "1", "2", "3", "4", "5", "6", "7", "8", "9"}
Lower == {"a", "b", "c", "d", "e", "f", "g", "h", "i", "j", "k", "l", "m",
          "n", "o", "p", "q", "r", "s", "t", "u", "v", "w", "x", "y", "z"}
Upper == {"A", "B", "C", "D", "E", "F", "G", "H", "I", "J", "K", "L", "M",
          "N", "O", "P", "Q", "R", "S", "T", "U", "V", "W", "X", "Y", "Z"}
AlphaNum == Lower \cup Upper \cup Digit
\* White space as String.prototype.trim and parseInt strip it.
WhiteSpace == {" ", "\t", "\n"}
\* \w of a JavaScript regular expression.
WordChar == AlphaNum \cup {"_"}
\* [-a-zA-Z0-9@:%._\+~#=]
HostChar == AlphaNum \cup {"-", "@", ":", "%", ".", "_", "+", "~", "#", "="}
\* [a-zA-Z0-9()]
TldChar == AlphaNum \cup {"(", ")"}
\* [-a-zA-Z0-9()@:%_\+.~#?&//=]
PathChar == AlphaNum \cup {"-", "(", ")", "@", ":", "%", "_", "+", ".", "~",
                           "#", "?", "&", "/", "="}

(* ------------------------------- text --------------------------------- *)
AllIn(s, class) == \A i \in 1..Len(s) : s[i] \in class

StartsWith(s, p) == Len(s) >= Len(p) /\ SubSeq(s, 1, Len(p)) = p

Drop(s, n) == SubSeq(s, n + 1, Len(s))

\* String.prototype.includes / the store's "contains" filter.
Contains(s, needle) ==
    \E i \in 0..(Len(s) - Len(needle)) : SubSeq(s, i + 1, i + Len(needle)) = needle

\* String.prototype.trim.
Trim(s) ==
    LET keep == {i \in 1..Len(s) : s[i] \notin WhiteSpace}
    IN  IF keep = {} THEN <<>>
        ELSE SubSeq(s, CHOOSE i \in keep : \A j \in keep : i <= j,
                       CHOOSE i \in keep : \A j \in keep : i >= j)

DigitValue(c) ==
    CASE c = "0" -> 0 [] c = "1" -> 1 [] c = "2" -> 2 [] c = "3" -> 3
      [] c = "4" -> 4 [] c = "5" -> 5 [] c = "6" -> 6 [] c = "7" -> 7
      [] c = "8" -> 8 [] c = "9" -> 9
      [] c \in {"a", "A"} -> 10 [] c \in {"b", "B"} -> 11
      [] c \in {"c", "C"} -> 12 [] c \in {"d", "D"} -> 13
      [] c \in {"e", "E"} -> 14 [] c \in {"f", "F"} -> 15

HexDigit == Digit \cup {"a", "b", "c", "d", "e", "f", "A", "B", "C", "D", "E", "F"}

\* The value of a numeral in the given radix.
RECURSIVE NumeralValue(_, _)
NumeralValue(s, radix) ==
    IF s = <<>> THEN 0
    ELSE radix * NumeralValue(SubSeq(s, 1, Len(s) - 1), radix) + DigitValue(s[Len(s)])

\* The longest prefix of s made of characters of class.
PrefixIn(s, class) ==
    LET stop == {i \in 1..Len(s) : s[i] \notin class}
    IN  IF stop = {} THEN s
        ELSE SubSeq(s, 1, (CHOOSE i \in stop : \A j \in stop : i <= j) - 1)

DigitChar(d) ==
    CASE d = 0 -> "0" [] d = 1 -> "1" [] d = 2 -> "2" [] d = 3 -> "3"
      [] d = 4 -> "4" [] d = 5 -> "5" [] d = 6 -> "6" [] d = 7 -> "7"
      [] d = 8 -> "8" [] d = 9 -> "9"

\* ${n} in a template literal, for an integer n.
RECURSIVE NatToText(_)
NatToText(n) ==
    IF n < 10 THEN <<DigitChar(n)>>
    ELSE NatToText(n \div 10) \o <<DigitChar(n % 10)>>

IntToText(n) == IF n < 0 THEN <<"-">> \o NatToText(-n) ELSE NatToText(n)

(* ----------------------- validation utilities ------------------------- *)
\* A GraphQLError: the template it was built from and the interpolated values.
GraphQLError(fmt, values) == [fmt |-> fmt, values |-> values]

NoError == GraphQLError("", <<>>)

\* Number | null of parseIntSafe, and number (possibly NaN) of parseInt.
Number(n) == [isNumber |-> TRUE, n |-> n]
NotANumber == [isNumber |-> FALSE, n |-> 0]

\* parseInt(text) with no radix: leading white space, a sign, a 0x prefix,
\* then the longest run of digits; NaN when that run is empty.
parseInt(text) ==
    LET lead     == PrefixIn(text, WhiteSpace)
        s        == Drop(text, Len(lead))
        signed   == s # <<>> /\ s[1] \in {"+", "-"}
        negative == s # <<>> /\ s[1] = "-"
        body     == IF signed THEN Drop(s, 1) ELSE s
        hex      == StartsWith(body, <<"0", "x">>) \/ StartsWith(body, <<"0", "X">>)
        digits   == IF hex THEN PrefixIn(Drop(body, 2), HexDigit)
                    ELSE PrefixIn(body, Digit)
        value    == NumeralValue(digits, IF hex THEN 16 ELSE 10)
    IN  IF digits = <<>> THEN NotANumber
        ELSE Number(IF negative THEN 0 - value ELSE value)

\* parseIntSafe as the lenient parseInt: a numeral followed by anything passes.
parseIntSafeLenient(value) == parseInt(value)

parseIntSafe(value) ==
    IF Len(value) >= 1 /\ AllIn(value, Digit)
    THEN Number(NumeralValue(value, 10))
    ELSE NotANumber

\* (www\.)?[HostChar]{1,256}\.[TldChar]{1,6}\b([PathChar]*)$ matched from
\* the start of s.
MatchesDomain(s) ==
    \E w \in {0, 4} :
      /\ w = 4 => StartsWith(s, <<"w", "w", "w", ".">>)
      /\ \E dot \in (w + 2)..Len(s) :
           /\ dot - 1 - w <= 256
           /\ AllIn(SubSeq(s, w + 1, dot - 1), HostChar)
           /\ s[dot] = "."
           /\ \E end \in (dot + 1)..Len(s) :
                /\ end - dot <= 6
                /\ AllIn(SubSeq(s, dot + 1, end), TldChar)
                /\ (s[end] \in WordChar) # (end < Len(s) /\ s[end + 1] \in WordChar)
                /\ AllIn(Drop(s, end), PathChar)

SchemeHttp == <<"h", "t", "t", "p", ":", "/", "/">>
SchemeHttps == <<"h", "t", "t", "p", "s", ":", "/", "/">>

\* The scheme /^https?:\/\// matches at the start of s, or <<>>.
SchemeOf(s) ==
    IF StartsWith(s, SchemeHttps) THEN SchemeHttps
    ELSE IF StartsWith(s, SchemeHttp) THEN SchemeHttp
    ELSE <<>>

\* validateAndNormalizeUrl that forgets the scheme of a bare domain.
validateUrlWithoutScheme(url) ==
    LET trimmedUrl == Trim(url)
        scheme     == SchemeOf(trimmedUrl)
    IN  IF ~MatchesDomain(Drop(trimmedUrl, Len(scheme)))
        THEN [ok |-> FALSE, value |-> <<>>,
              error |-> GraphQLError("Invalid URL format.", <<>>)]
        ELSE [ok |-> TRUE, value |-> trimmedUrl, error |-> NoError]

validateAndNormalizeUrl(url) ==
    LET trimmedUrl == Trim(url)
        scheme     == SchemeOf(trimmedUrl)
    IN  IF scheme # <<>>
        THEN IF ~MatchesDomain(Drop(trimmedUrl, Len(scheme)))
             THEN [ok |-> FALSE, value |-> <<>>,
                   error |-> GraphQLError("Invalid URL format.", <<>>)]
             ELSE [ok |-> TRUE, value |-> trimmedUrl, error |-> NoError]
        ELSE IF ~MatchesDomain(trimmedUrl)
             THEN [ok |-> FALSE, value |-> <<>>,
                   error |-> GraphQLError("Invalid domain format.", <<>>)]
             ELSE [ok |-> TRUE, value |-> SchemeHttps \o trimmedUrl, error |-> NoError]

\* applyTakeConstraints with the upper limit excluded.
applyTakeConstraintsExclusive(params) ==
    IF params.value < params.min \/ params.value >= params.max
    THEN [ok |-> FALSE, value |-> 0,
          error |-> GraphQLError(
              "'take' argument value '${value}' is outside the valid range of '${min}' to '${max}'.",
              <<IntToText(params.value), IntToText(params.min), IntToText(params.max)>>)]
    ELSE [ok |-> TRUE, value |-> params.value, error |-> NoError]

applyTakeConstraints(params) ==
    IF params.value < params.min \/ params.value > params.max
    THEN [ok |-> FALSE, value |-> 0,
          error |-> GraphQLError(
              "'take' argument value '${value}' is outside the valid range of '${min}' to '${max}'.",
              <<IntToText(params.value), IntToText(params.min), IntToText(params.max)>>)]
    ELSE [ok |-> TRUE, value |-> params.value, error |-> NoError]

applySkipConstraints(params) ==
    IF params.value < 0
    THEN [ok |-> FALSE, value |-> 0,
          error |-> GraphQLError(
              "'skip' argument value '${value}' should be greater than or equal to 0.",
              <<IntToText(params.value)>>)]
    ELSE [ok |-> TRUE, value |-> params.value, error |-> NoError]

(* ------------------------------ inputs -------------------------------- *)
UrlInputs ==
    { <<"a", ".", "b">>,                      \* bare domain
      <<" ", "a", ".", "b", "\n">>,           \* bare domain in white space
      SchemeHttp \o <<"a", ".", "b">>,        \* full URL
      SchemeHttps \o <<"a", ".", "b">>,
      <<"x">>,                                \* no top-level label
      SchemeHttp \o <<"x">>,
      <<>> }

DescriptionInputs == { <<>>, <<"d">> }

BodyInputs == { <<>>, <<"c">> }

\* ID! arguments: GraphQL hands the resolver the text.
IdInputs ==
    { <<"1">>, <<"2">>, <<"0", "2">>, <<"9">>, <<>>, <<"x">>, <<"1", "x">>,
      <<" ", "1">>, <<"-", "1">>, <<"0", "x", "1">> }

\* An optional argument is <<>> (not given) or <<value>>.
FilterInputs == { <<>>, << <<>> >>, << <<"s">> >>, << <<"d">> >> }
SkipInputs == { <<>>, <<-1>>, <<0>>, <<1>> }
TakeInputs == { <<>>, <<0>>, <<1>>, <<50>>, <<51>> }

Times == 0..MaxTime

(* ------------------------------- state -------------------------------- *)
VARIABLES
    links,      \* table Link, in id order
    comments,   \* table Comment, in id order
    response    \* the request just resolved and its response, until it is sent

vars == <<links, comments, response>>

store == <<links, comments>>

\* @default(now()): the clock of the store never runs backwards.
LatestTime ==
    LET stamps == {links[i].createdAt : i \in 1..Len(links)}
                  \cup {comments[i].createdAt : i \in 1..Len(comments)}
    IN  IF stamps = {} THEN 0 ELSE CHOOSE t \in stamps : \A u \in stamps : u <= t

(* ------------------------- the store (Prisma) ------------------------- *)
\* prisma.link.create: id is @default(autoincrement()), createdAt @default(now()).
link_create(data, now) ==
    [id |-> Len(links) + 1, createdAt |-> now,
     description |-> data.description, url |-> data.url]

\* The relation Comment.linkId -> Link.id: a create naming no Link is
\* refused with P2003.
ForeignKeyHolds(linkId) == \E i \in 1..Len(links) : links[i].id = linkId

\* comment.create on a schema without the relation: any linkId is stored.
comment_createUnchecked(data, now) ==
    [code |-> "", row |-> << [id |-> Len(comments) + 1, createdAt |-> now,
                              body |-> data.body, linkId |-> data.linkId] >>]

\* prisma.comment.create.
comment_create(data, now) ==
    IF ForeignKeyHolds(data.linkId)
    THEN [code |-> "", row |-> << [id |-> Len(comments) + 1, createdAt |-> now,
                                   body |-> data.body, linkId |-> data.linkId] >>]
    ELSE [code |-> "P2003", row |-> <<>>]

\* prisma.link.findUnique / prisma.comment.findUnique for a number id.
findUnique(table, id) == SelectSeq(table, LAMBDA row : row.id = id)

\* where: {} or {OR: [{description: {contains}}, {url: {contains}}]}.
MatchesWhere(row, where) ==
    where = <<>> \/ Contains(row.description, where[1]) \/ Contains(row.url, where[1])

\* prisma.link.findMany({where, skip, take}).
link_findMany(where, skip, take) ==
    LET matching == SelectSeq(links, LAMBDA row : MatchesWhere(row, where))
    IN  SubSeq(matching, skip + 1,
               IF skip + take < Len(matching) THEN skip + take ELSE Len(matching))

\* orderBy left out: the rows stay in table order.
SortTableOrder(s) == s

\* Rows of s ordered by createdAt descending; rows of one createdAt stay in
\* table order.
RECURSIVE SortNewestFirst(_)
SortNewestFirst(s) ==
    IF s = <<>> THEN <<>>
    ELSE LET newest == CHOOSE i \in 1..Len(s) :
                           \A j \in 1..Len(s) :
                               \/ s[j].createdAt < s[i].createdAt
                               \/ (s[j].createdAt = s[i].createdAt /\ i <= j)
         IN  <<s[newest]>> \o
             SortNewestFirst(SubSeq(s, 1, newest - 1) \o SubSeq(s, newest + 1, Len(s)))

\* prisma.comment.findMany({orderBy: {createdAt: 'desc'}, where: {linkId}}).
comment_findMany(linkId) ==
    SortNewestFirst(SelectSeq(comments, LAMBDA row : row.linkId = linkId))

(* ------------------------------ responses ----------------------------- *)
\* A resolved request: data is the sequence of records returned (empty for
\* null), storeOps the number of store calls the resolver issued.
Resolved(op, args, data, storeOps) ==
    [op |-> op, args |-> args, ok |-> TRUE, data |-> data, error |-> NoError,
     storeOps |-> storeOps]

Rejected(op, args, error, storeOps) ==
    [op |-> op, args |-> args, ok |-> FALSE, data |-> <<>>, error |-> error,
     storeOps |-> storeOps]

\* No request is being answered.
NoResponse == Resolved("none", <<>>, <<>>, 0)

Init ==
    /\ links = <<>>
    /\ comments = <<>>
    /\ response = NoResponse

(* ------------------------------ resolvers ----------------------------- *)
\* Each resolver validates its own arguments, reading no shared state, and
\* then issues at most one store call, which the store runs atomically; the
\* code after the await only returns. A request therefore takes effect at
\* its store call, and overlapping requests are the sequences of these steps:
\* the server resolves one request, sends its response, and takes the next.

info ==
    /\ response' = Resolved("info", <<>>, <<"This is the API of a Hackernews Clone">>, 0)
    /\ UNCHANGED store

feed(filterNeedle, skip, take) ==
    LET args  == [filterNeedle |-> filterNeedle, skip |-> skip, take |-> take]
        \* args.filterNeedle ? {OR: [...]} : {}  (the empty string is falsy)
        where == IF filterNeedle # <<>> /\ filterNeedle[1] # <<>>
                 THEN <<filterNeedle[1]>> ELSE <<>>
        taken == applyTakeConstraints(
                     [min |-> 1, max |-> 50,
                      value |-> IF take = <<>> THEN 30 ELSE take[1]])
        skipped == applySkipConstraints([value |-> IF skip = <<>> THEN 0 ELSE skip[1]])
    IN  /\ response' = IF ~taken.ok THEN Rejected("feed", args, taken.error, 0)
                   ELSE IF ~skipped.ok THEN Rejected("feed", args, skipped.error, 0)
                   ELSE Resolved("feed", args,
                                 link_findMany(where, skipped.value, taken.value), 1)
        /\ UNCHANGED store

\* findUnique({where: {id: parseInt(args.id)}}). The source passes NaN on to
\* the store when the text has no leading numeral; what the store does with
\* NaN is not fixed by the source: it finds nothing, or it refuses the query.
lookup(op, table, id) ==
    LET parsed == parseInt(id)
        args   == [id |-> id]
    IN  /\ IF parsed.isNumber
           THEN response' = Resolved(op, args, findUnique(table, parsed.n), 1)
           ELSE \/ response' = Resolved(op, args, <<>>, 1)
                \/ response' = Rejected(op, args,
                                    GraphQLError("store: invalid value NaN for id", <<>>), 1)
        /\ UNCHANGED store

comment(id) == lookup("comment", comments, id)

link(id) == lookup("link", links, id)

\* Link.comments: parent is a Link an earlier resolver returned.
Link_comments(parent) ==
    /\ response' = Resolved("Link.comments", [parent |-> parent],
                        comment_findMany(parent.id), 1)
    /\ UNCHANGED store

\* Comment.link: parent is a Comment an earlier resolver returned.
Comment_link(parent) ==
    /\ response' = Resolved("Comment.link", [parent |-> parent],
                        findUnique(links, parent.linkId), 1)
    /\ UNCHANGED store

\* postLink that stores the Link before it looks at the description.
postLinkCreateFirst(url, description) ==
    LET args          == [url |-> url, description |-> description]
        normalizedUrl == validateAndNormalizeUrl(url)
    IN  IF ~normalizedUrl.ok
        THEN /\ response' = Rejected("postLink", args, normalizedUrl.error, 0)
             /\ UNCHANGED store
        ELSE /\ Len(links) < MaxLinks
             /\ \E now \in LatestTime..MaxTime :
                  LET newLink == link_create([url |-> normalizedUrl.value,
                                              description |-> description], now)
                  IN  /\ links' = Append(links, newLink)
                      /\ response' =
                           IF Len(description) = 0
                           THEN Rejected("postLink", args,
                                    GraphQLError("Cannot post link with empty description.", <<>>), 1)
                           ELSE Resolved("postLink", args, <<newLink>>, 1)
             /\ UNCHANGED comments

\* postLink without the description check.
postLinkAnyDescription(url, description) ==
    LET args          == [url |-> url, description |-> description]
        normalizedUrl == validateAndNormalizeUrl(url)
    IN  IF ~normalizedUrl.ok
        THEN /\ response' = Rejected("postLink", args, normalizedUrl.error, 0)
             /\ UNCHANGED store
        ELSE /\ Len(links) < MaxLinks
             /\ \E now \in LatestTime..MaxTime :
                  LET newLink == link_create([url |-> normalizedUrl.value,
                                              description |-> description], now)
                  IN  /\ links' = Append(links, newLink)
                      /\ response' = Resolved("postLink", args, <<newLink>>, 1)
             /\ UNCHANGED comments

\* postLink that keeps one Link per url: an earlier Link of the same url goes.
postLinkReplacing(url, description) ==
    LET args          == [url |-> url, description |-> description]
        normalizedUrl == validateAndNormalizeUrl(url)
    IN  IF ~normalizedUrl.ok
        THEN /\ response' = Rejected("postLink", args, normalizedUrl.error, 0)
             /\ UNCHANGED store
        ELSE IF Len(description) = 0
        THEN /\ response' = Rejected("postLink", args,
                            GraphQLError("Cannot post link with empty description.", <<>>), 0)
             /\ UNCHANGED store
        ELSE /\ Len(links) < MaxLinks
             /\ \E now \in LatestTime..MaxTime :
                  LET newLink == link_create([url |-> normalizedUrl.value,
                                              description |-> description], now)
                  IN  /\ links' = Append(SelectSeq(links, LAMBDA row : row.url # newLink.url),
                                         newLink)
                      /\ response' = Resolved("postLink", args, <<newLink>>, 1)
             /\ UNCHANGED comments

postLink(url, description) ==
    LET args          == [url |-> url, description |-> description]
        normalizedUrl == validateAndNormalizeUrl(url)
    IN  IF ~normalizedUrl.ok
        THEN /\ response' = Rejected("postLink", args, normalizedUrl.error, 0)
             /\ UNCHANGED store
        ELSE IF Len(description) = 0
        THEN /\ response' = Rejected("postLink", args,
                            GraphQLError("Cannot post link with empty description.", <<>>), 0)
             /\ UNCHANGED store
        ELSE /\ Len(links) < MaxLinks
             /\ \E now \in LatestTime..MaxTime :
                  LET newLink == link_create([url |-> normalizedUrl.value,
                                              description |-> description], now)
                  IN  /\ links' = Append(links, newLink)
                      /\ response' = Resolved("postLink", args, <<newLink>>, 1)
             /\ UNCHANGED comments

\* postCommentOnLink without the catch: the store's error reaches the caller.
postCommentOnLinkNoCatch(linkId, body) ==
    LET args    == [linkId |-> linkId, body |-> body]
        linkIdN == parseIntSafe(linkId)
    IN  IF ~linkIdN.isNumber
        THEN /\ response' = Rejected("postCommentOnLink", args,
                            GraphQLError("Cannot post comment on non-existing link with id '${args.linkId}'",
                                         <<linkId>>), 0)
             /\ UNCHANGED store
        ELSE IF Len(body) = 0
        THEN /\ response' = Rejected("postCommentOnLink", args,
                            GraphQLError("Cannot post empty comment.", <<>>), 0)
             /\ UNCHANGED store
        ELSE \E now \in LatestTime..MaxTime :
               LET created == comment_create([body |-> body, linkId |-> parseInt(linkId).n], now)
               IN  IF created.code = "P2003"
                   THEN /\ response' = Rejected("postCommentOnLink", args,
                                       GraphQLError("Foreign key constraint failed on the field", <<>>), 1)
                        /\ UNCHANGED store
                   ELSE /\ Len(comments) < MaxComments
                        /\ comments' = comments \o created.row
                        /\ response' = Resolved("postCommentOnLink", args, created.row, 1)
                        /\ UNCHANGED links

postCommentOnLink(linkId, body) ==
    LET args    == [linkId |-> linkId, body |-> body]
        linkIdN == parseIntSafe(linkId)
    IN  IF ~linkIdN.isNumber
        THEN /\ response' = Rejected("postCommentOnLink", args,
                            GraphQLError("Cannot post comment on non-existing link with id '${args.linkId}'",
                                         <<linkId>>), 0)
             /\ UNCHANGED store
        ELSE IF Len(body) = 0
        THEN /\ response' = Rejected("postCommentOnLink", args,
                            GraphQLError("Cannot post empty comment.", <<>>), 0)
             /\ UNCHANGED store
        ELSE \E now \in LatestTime..MaxTime :
               LET created == comment_create([body |-> body, linkId |-> parseInt(linkId).n], now)
               IN  IF created.code = "P2003"
                   THEN /\ response' = Rejected("postCommentOnLink", args,
                                       GraphQLError("Cannot post comment on non-existing link with id '${args.linkId}'.",
                                                    <<linkId>>), 1)
                        /\ UNCHANGED store
                   ELSE /\ Len(comments) < MaxComments
                        /\ comments' = comments \o created.row
                        /\ response' = Resolved("postCommentOnLink", args, created.row, 1)
                        /\ UNCHANGED links

\* The server sends the response of the resolved request.
send ==
    /\ response # NoResponse
    /\ response' = NoResponse
    /\ UNCHANGED store

Idle == response = NoResponse

Next ==
    \/ Idle /\ info
    \/ Idle /\ \E f \in FilterInputs, s \in SkipInputs, t \in TakeInputs : feed(f, s, t)
    \/ Idle /\ \E id \in IdInputs : comment(id)
    \/ Idle /\ \E id \in IdInputs : link(id)
    \/ Idle /\ \E i \in 1..Len(links) : Link_comments(links[i])
    \/ Idle /\ \E i \in 1..Len(comments) : Comment_link(comments[i])
    \/ Idle /\ \E url \in UrlInputs, description \in DescriptionInputs :
                  postLink(url, description)
    \/ Idle /\ \E linkId \in IdInputs, body \in BodyInputs :
                  postCommentOnLink(linkId, body)
    \/ send

Spec == Init /\ [][Next]_vars

(* ------------------------------- claims ------------------------------- *)
IsPrefix(s, t) == Len(s) <= Len(t) /\ SubSeq(t, 1, Len(s)) = s

AllDigits(text) == Len(text) >= 1 /\ AllIn(text, Digit)

LinkIds == {links[i].id : i \in 1..Len(links)}

MessageNonExistingLink == "Cannot post comment on non-existing link with id '${args.linkId}'"
MessageNonExistingLinkStore == "Cannot post comment on non-existing link with id '${args.linkId}'."
MessageEmptyComment == "Cannot post empty comment."
MessageEmptyDescription == "Cannot post link with empty description."

\* C1: every stored Comment's linkId is the id of a stored Link, and
\* Comment.link resolves to that Link.
C1_ForeignKeyInvariant ==
    /\ \A i \in 1..Len(comments) : comments[i].linkId \in LinkIds
    /\ response.op = "Comment.link" =>
         /\ response.ok
         /\ Len(response.data) = 1
         /\ response.data[1].id = response.args.parent.linkId
         /\ \E i \in 1..Len(links) : links[i] = response.data[1]

C1_Witness ==
    /\ response.op = "Comment.link"
    /\ response.ok
    /\ Len(links) = 2
    /\ response.data = <<links[2]>>

\* The arguments of a request fail a local validation rule: a url that is
\* not URL- or domain-shaped, an empty description, a linkId that is not all
\* digits, an empty body, take outside [1,50], skip below 0.
LocalValidationFails(r) ==
    CASE r.op = "feed" ->
           \/ (r.args.take # <<>> /\ (r.args.take[1] < 1 \/ r.args.take[1] > 50))
           \/ (r.args.skip # <<>> /\ r.args.skip[1] < 0)
      [] r.op = "postLink" ->
           \/ ~MatchesDomain(Drop(Trim(r.args.url), Len(SchemeOf(Trim(r.args.url)))))
           \/ r.args.description = <<>>
      [] r.op = "postCommentOnLink" ->
           \/ ~AllDigits(r.args.linkId)
           \/ r.args.body = <<>>
      [] OTHER -> FALSE

\* C2: a request whose arguments fail a local validation rule ends in an
\* error, has issued no store operation, and leaves the store as it was.
C2_ValidationPrecedesStorage ==
    [][LocalValidationFails(response') =>
         /\ ~response'.ok
         /\ response'.storeOps = 0
         /\ links' = links
         /\ comments' = comments]_vars

C2_Witness ==
    /\ response.op = "postCommentOnLink"
    /\ response.args.body = <<>>
    /\ response.args.linkId = <<"1">>
    /\ ~response.ok
    /\ response.storeOps = 0
    /\ Len(links) >= 1
    /\ Len(comments) >= 1

\* C3 as stated: every postLink with an empty description, postLink("x", "")
\* among them, fails with "Cannot post link with empty description.".
C3_EmptyDescriptionMessage ==
    (response.op = "postLink" /\ response.args.description = <<>>) =>
        /\ ~response.ok
        /\ response.error.fmt = MessageEmptyDescription

\* C3 amended: a postLink with an empty description creates no Link and
\* leaves the store as it was; it fails with "Cannot post link with empty
\* description." when its url passes validation, and with the url's own
\* "Invalid URL format." / "Invalid domain format." when it does not.
C3_EmptyDescriptionRejected ==
    [][(response'.op = "postLink" /\ response'.args.description = <<>>) =>
         LET trimmed == Trim(response'.args.url)
             scheme  == SchemeOf(trimmed)
         IN  /\ ~response'.ok
             /\ response'.error.fmt =
                  IF MatchesDomain(Drop(trimmed, Len(scheme)))
                  THEN MessageEmptyDescription
                  ELSE IF scheme # <<>> THEN "Invalid URL format."
                  ELSE "Invalid domain format."
             /\ links' = links
             /\ comments' = comments]_vars

C3_Witness ==
    /\ response.op = "postLink"
    /\ response.args.description = <<>>
    /\ response.args.url = <<"a", ".", "b">>
    /\ ~response.ok
    /\ response.error.fmt = MessageEmptyDescription
    /\ Len(links) >= 1

\* C4: postCommentOnLink with a non-empty body and an all-digit linkId that
\* names no stored Link fails with the translated message "Cannot post
\* comment on non-existing link with id '<linkId>'." and creates no Comment.
C4_MissingLinkRejected ==
    [][(/\ response'.op = "postCommentOnLink"
        /\ AllDigits(response'.args.linkId)
        /\ response'.args.body # <<>>
        /\ NumeralValue(response'.args.linkId, 10) \notin LinkIds) =>
         /\ ~response'.ok
         /\ response'.error.fmt \in {MessageNonExistingLink, MessageNonExistingLinkStore}
         /\ response'.error.values = <<response'.args.linkId>>
         /\ comments' = comments
         /\ links' = links]_vars

C4_Witness ==
    /\ response.op = "postCommentOnLink"
    /\ response.args = [linkId |-> <<"9">>, body |-> <<"c">>]
    /\ ~response.ok
    /\ response.error = GraphQLError(MessageNonExistingLinkStore, << <<"9">> >>)
    /\ response.storeOps = 1
    /\ Len(links) >= 1
    /\ Len(comments) >= 1

\* The url the claim expects to be stored for a url argument.
NormalizedArgument(url) ==
    IF StartsWith(Trim(url), SchemeHttp) \/ StartsWith(Trim(url), SchemeHttps)
    THEN Trim(url)
    ELSE SchemeHttps \o Trim(url)

LinksWellFormed ==
    \A i \in 1..Len(links) :
        /\ links[i].description # <<>>
        /\ StartsWith(links[i].url, SchemeHttp) \/ StartsWith(links[i].url, SchemeHttps)

\* C5: a successful postLink adds exactly one Link, with the description
\* given, a positive id no stored Link has, and the normalized url; every
\* stored Link has a non-empty description and an http:// or https:// url.
C5_PostLinkCreates ==
    [][/\ (response'.op = "postLink" /\ response'.ok) =>
            /\ Len(links') = Len(links) + 1
            /\ IsPrefix(links, links')
            /\ comments' = comments
            /\ response'.data = <<links'[Len(links')]>>
            /\ response'.data[1].description = response'.args.description
            /\ response'.data[1].url = NormalizedArgument(response'.args.url)
            /\ response'.data[1].id > 0
            /\ response'.data[1].id \notin LinkIds
       /\ LinksWellFormed']_vars

C5_Witness ==
    /\ response.op = "postLink"
    /\ response.ok
    /\ response.args.url = <<" ", "a", ".", "b", "\n">>
    /\ response.data[1].url = SchemeHttps \o <<"a", ".", "b">>
    /\ response.data[1].id = 2
    /\ links[1].url = SchemeHttp \o <<"a", ".", "b">>

\* The Links the claim expects feed to return.
ExpectedFeed(filterNeedle, skip, take) ==
    LET matching == SelectSeq(links, LAMBDA row :
                        \/ filterNeedle = <<>>
                        \/ Contains(row.description, filterNeedle[1])
                        \/ Contains(row.url, filterNeedle[1]))
        rest     == Drop(matching, skip)
    IN  IF Len(rest) <= take THEN rest ELSE SubSeq(rest, 1, take)

\* C6: feed fails exactly when take (30 when not given) is outside [1,50]
\* or skip (0 when not given) is below 0; otherwise it returns the stored
\* Links matching the filter, the first skip dropped, at most take kept.
C6_Feed ==
    response.op = "feed" =>
        LET take == IF response.args.take = <<>> THEN 30 ELSE response.args.take[1]
            skip == IF response.args.skip = <<>> THEN 0 ELSE response.args.skip[1]
        IN  /\ ~response.ok <=> (take < 1 \/ take > 50 \/ skip < 0)
            /\ response.ok =>
                 /\ response.data = ExpectedFeed(response.args.filterNeedle, skip, take)
                 /\ Len(response.data) <= 50
                 /\ \A i \in 1..Len(response.data) :
                        \/ response.args.filterNeedle = <<>>
                        \/ Contains(response.data[i].description, response.args.filterNeedle[1])
                        \/ Contains(response.data[i].url, response.args.filterNeedle[1])

C6_Witness ==
    /\ response.op = "feed"
    /\ response.ok
    /\ response.args = [filterNeedle |-> << <<"s">> >>, skip |-> <<>>, take |-> <<50>>]
    /\ Len(links) = 2
    /\ response.data = <<links[2]>>

\* C7: Link.comments returns exactly the Comments of that Link, and a
\* Comment created later than another comes before it.
C7_CommentsNewestFirst ==
    response.op = "Link.comments" =>
        /\ response.ok
        /\ {response.data[i] : i \in 1..Len(response.data)} =
             {comments[k] : k \in {k \in 1..Len(comments) :
                                      comments[k].linkId = response.args.parent.id}}
        /\ \A i, j \in 1..Len(response.data) :
               /\ (i # j => response.data[i] # response.data[j])
               /\ (response.data[i].createdAt > response.data[j].createdAt => i < j)

C7_Witness ==
    /\ response.op = "Link.comments"
    /\ Len(response.data) = 2
    /\ response.data[1].createdAt > response.data[2].createdAt
    /\ response.data[1].id > response.data[2].id

ReadOperations == {"info", "feed", "link", "comment", "Link.comments", "Comment.link"}

\* C8: a read leaves the store as it was; no request changes or removes a
\* stored Link or Comment, and a request adds at most one record.
C8_AppendOnly ==
    [][/\ IsPrefix(links, links')
       /\ IsPrefix(comments, comments')
       /\ Len(links') + Len(comments') <= Len(links) + Len(comments) + 1
       /\ response'.op \in ReadOperations => (links' = links /\ comments' = comments)]_vars

C8_Witness ==
    /\ response.op = "postLink"
    /\ response.ok
    /\ Len(links) = 2
    /\ links[1].url = links[2].url
    /\ Len(comments) = 2

\* The integer an id text denotes: an optional sign and decimal digits, or
\* 0x and hexadecimal digits, surrounded by white space at most.
DenotesInteger(text) ==
    LET t    == Trim(text)
        body == IF t # <<>> /\ t[1] \in {"+", "-"} THEN Drop(t, 1) ELSE t
    IN  \/ AllDigits(body)
        \/ /\ StartsWith(body, <<"0", "x">>) \/ StartsWith(body, <<"0", "X">>)
           /\ Len(body) >= 3
           /\ AllIn(Drop(body, 2), HexDigit)

\* C9 as stated: link(id) and comment(id) never end in an error, return
\* nothing for an id text that denotes no integer, and return a record only
\* when its id is the integer the text denotes.
C9_LookupNeverFails ==
    response.op \in {"link", "comment"} =>
        /\ response.ok
        /\ ~DenotesInteger(response.args.id) => response.data = <<>>
        /\ response.data # <<>> => response.data[1].id = parseInt(response.args.id).n

\* C10: postCommentOnLink creates a Comment exactly when linkId is all
\* digits, its value is the id of a stored Link and body is non-empty; the
\* Comment carries that value and the body. A linkId that is not all digits
\* is refused first, then an empty body, both before any store call.
C10_PostCommentOnLink ==
    [][response'.op = "postCommentOnLink" =>
         LET linkId == response'.args.linkId
             body   == response'.args.body
         IN  /\ response'.ok <=> (/\ AllDigits(linkId)
                                  /\ NumeralValue(linkId, 10) \in LinkIds
                                  /\ body # <<>>)
             /\ response'.ok <=> comments' # comments
             /\ response'.ok =>
                  /\ comments' = comments \o response'.data
                  /\ Len(response'.data) = 1
                  /\ response'.data[1].linkId = NumeralValue(linkId, 10)
                  /\ response'.data[1].body = body
             /\ ~AllDigits(linkId) =>
                  /\ response'.error = GraphQLError(MessageNonExistingLink, <<linkId>>)
                  /\ response'.storeOps = 0
             /\ (AllDigits(linkId) /\ body = <<>>) =>
                  /\ response'.error = GraphQLError(MessageEmptyComment, <<>>)
                  /\ response'.storeOps = 0
             /\ links' = links]_vars

C10_Witness ==
    /\ response.op = "postCommentOnLink"
    /\ response.ok
    /\ response.args.linkId = <<"0", "2">>
    /\ response.data[1].linkId = 2
    /\ Len(comments) = 2

====
